---- MODULE Spec2Model ----
(***************************************************************************)
(* Model of llm_tools_web_fetch.fetch_url.                                 *)
(*                                                                         *)
(* Python strings are sequences of one-character strings, so that strip,   *)
(* startswith, the substring tests, str.lower and re.sub are computed on   *)
(* characters as the code computes them.  Optional values (None or a       *)
(* value) are sequences of length 0 or 1.  A dict handed to json.dumps is  *)
(* a record whose DOMAIN is the set of its keys; json.dumps only           *)
(* serializes that dict, so `result` holds the dict.                       *)
(***************************************************************************)
EXTENDS Integers, Sequences, FiniteSets, TLC

(* ---------------- bounds of the model ---------------- *)
MaxAnchors == 2    \* <a href> elements in a fetched document
MaxNewlines == 4   \* longest run of newlines in the extracted text

(* ---------------- optional values ---------------- *)
None == <<>>
Some(v) == <<v>>

(* ---------------- Python str operations ---------------- *)
\* characters str.strip() removes (those that occur in the model's inputs)
Whitespace == {" ", "\n", "\t"}

RECURSIVE LStrip(_)
LStrip(s) ==
    IF s # <<>> /\ s[1] \in Whitespace THEN LStrip(Tail(s)) ELSE s

RECURSIVE RStrip(_)
RStrip(s) ==
    IF s # <<>> /\ s[Len(s)] \in Whitespace
    THEN RStrip(SubSeq(s, 1, Len(s) - 1)) ELSE s

\* str.strip()
Strip(s) == RStrip(LStrip(s))

\* str.startswith(prefix)
StartsWith(s, prefix) ==
    Len(s) >= Len(prefix) /\ SubSeq(s, 1, Len(prefix)) = prefix

\* str.startswith((p1, p2, ...))
StartsWithAny(s, prefixes) == \E p \in prefixes : StartsWith(s, p)

\* sub in s
Contains(s, sub) ==
    \E i \in 0..(Len(s) - Len(sub)) : SubSeq(s, i + 1, i + Len(sub)) = sub

Upper == <<"A", "B", "C", "D", "E", "F", "G", "H", "I", "J", "K", "L", "M", "N", "O", "P", "Q", "R", "S", "T", "U", "V", "W", "X", "Y", "Z">>
LowerOf == <<"a", "b", "c", "d", "e", "f", "g", "h", "i", "j", "k", "l", "m", "n", "o", "p", "q", "r", "s", "t", "u", "v", "w", "x", "y", "z">>

LowerChar(c) ==
    IF \E i \in 1..Len(Upper) : Upper[i] = c
    THEN LowerOf[CHOOSE i \in 1..Len(Upper) : Upper[i] = c]
    ELSE c

\* str.lower()
Lower(s) == [i \in 1..Len(s) |-> LowerChar(s[i])]

\* a run of n copies of character c
RECURSIVE Rep(_, _)
Rep(c, n) == IF n <= 0 THEN <<>> ELSE <<c>> \o Rep(c, n - 1)

\* length of the run of newlines at the head of s
RECURSIVE NewlineRun(_)
NewlineRun(s) ==
    IF s # <<>> /\ s[1] = "\n" THEN 1 + NewlineRun(Tail(s)) ELSE 0

\* the mis-written pattern \n{4,}: runs of exactly 3 newlines survive
RECURSIVE ReSubNewlines_from4(_)
ReSubNewlines_from4(s) ==
    IF s = <<>> THEN <<>>
    ELSE LET n == NewlineRun(s) IN
         IF n >= 4
         THEN <<"\n", "\n">> \o ReSubNewlines_from4(SubSeq(s, n + 1, Len(s)))
         ELSE <<s[1]>> \o ReSubNewlines_from4(Tail(s))

\* re.sub(r"\n{3,}", "\n\n", s): every maximal run of 3 or more newlines
\* becomes 2 newlines, scanning left to right
RECURSIVE ReSubNewlines(_)
ReSubNewlines(s) ==
    IF s = <<>> THEN <<>>
    ELSE LET n == NewlineRun(s) IN
         IF n >= 3
         THEN <<"\n", "\n">> \o ReSubNewlines(SubSeq(s, n + 1, Len(s)))
         ELSE <<s[1]>> \o ReSubNewlines(Tail(s))

(* ---------------- message texts ---------------- *)
\* "URL is required"
MsgUrlRequired == <<"U", "R", "L", " ", "i", "s", " ", "r", "e", "q", "u", "i", "r", "e", "d">>
\* "Invalid URL: must start with http:// or https://"
MsgInvalidUrl == <<"I", "n", "v", "a", "l", "i", "d", " ", "U", "R", "L", ":", " ", "m", "u", "s", "t", " ", "s", "t", "a", "r", "t", " ", "w", "i", "t", "h", " ", "h", "t", "t", "p", ":", "/", "/", " ", "o", "r", " ", "h", "t", "t", "p", "s", ":", "/", "/">>
\* "Failed to fetch URL: page not accessible or returned empty content"
MsgFetchFailed == <<"F", "a", "i", "l", "e", "d", " ", "t", "o", " ", "f", "e", "t", "c", "h", " ", "U", "R", "L", ":", " ", "p", "a", "g", "e", " ", "n", "o", "t", " ", "a", "c", "c", "e", "s", "s", "i", "b", "l", "e", " ", "o", "r", " ", "r", "e", "t", "u", "r", "n", "e", "d", " ", "e", "m", "p", "t", "y", " ", "c", "o", "n", "t", "e", "n", "t">>
\* "No extractable content found on page"
MsgNoContent == <<"N", "o", " ", "e", "x", "t", "r", "a", "c", "t", "a", "b", "l", "e", " ", "c", "o", "n", "t", "e", "n", "t", " ", "f", "o", "u", "n", "d", " ", "o", "n", " ", "p", "a", "g", "e">>

HttpPrefixes == {<<"h", "t", "t", "p", ":", "/", "/">>, <<"h", "t", "t", "p", "s", ":", "/", "/">>}

\* the check that forgets https://
IsHttpUrl_httpOnly(u) == StartsWith(u, <<"h", "t", "t", "p", ":", "/", "/">>)

\* url.startswith(('http://', 'https://'))
IsHttpUrl(u) == StartsWithAny(u, HttpPrefixes)

SkippedPrefixes ==
    {<<"#">>, <<"j", "a", "v", "a", "s", "c", "r", "i", "p", "t", ":">>, <<"m", "a", "i", "l", "t", "o", ":">>, <<"t", "e", "l", ":">>, <<"d", "a", "t", "a", ":">>}

(* ---------------- failure classifier (except block) ---------------- *)
IsConnectionError(error_msg) ==
    Contains(error_msg, <<"C", "o", "n", "n", "e", "c", "t", "i", "o", "n", "E", "r", "r", "o", "r">>)
    \/ Contains(Lower(error_msg), <<"c", "o", "n", "n", "e", "c", "t", "i", "o", "n">>)

IsTimeout(error_msg) ==
    Contains(error_msg, <<"T", "i", "m", "e", "o", "u", "t">>)
    \/ Contains(Lower(error_msg), <<"t", "i", "m", "e", "o", "u", "t">>)

IsCertificateError(error_msg) ==
    Contains(error_msg, <<"S", "S", "L">>)
    \/ Contains(Lower(error_msg), <<"c", "e", "r", "t", "i", "f", "i", "c", "a", "t", "e">>)

IsServerError(error_msg) ==
    Contains(error_msg, <<"5", "0", "0">>) \/ Contains(error_msg, <<"5", "0", "2">>)
    \/ Contains(error_msg, <<"5", "0", "3">>)

\* the chain with the 403 test placed before the 404 test
Classify_403First(error_msg, u) ==
    IF IsConnectionError(error_msg)
    THEN <<"C", "o", "n", "n", "e", "c", "t", "i", "o", "n", " ", "e", "r", "r", "o", "r", ":", " ", "u", "n", "a", "b", "l", "e", " ", "t", "o", " ", "r", "e", "a", "c", "h", " ">> \o u
    ELSE IF IsTimeout(error_msg)
    THEN <<"R", "e", "q", "u", "e", "s", "t", " ", "t", "i", "m", "e", "d", " ", "o", "u", "t", " ", "f", "o", "r", " ">> \o u
    ELSE IF IsCertificateError(error_msg)
    THEN <<"S", "S", "L", "/", "T", "L", "S", " ", "c", "e", "r", "t", "i", "f", "i", "c", "a", "t", "e", " ", "e", "r", "r", "o", "r", " ", "f", "o", "r", " ">> \o u
    ELSE IF Contains(error_msg, <<"4", "0", "3">>)
    THEN <<"A", "c", "c", "e", "s", "s", " ", "f", "o", "r", "b", "i", "d", "d", "e", "n", " ", "(", "4", "0", "3", ")", " ", "a", "t", " ">> \o u
    ELSE IF Contains(error_msg, <<"4", "0", "4">>)
    THEN <<"P", "a", "g", "e", " ", "n", "o", "t", " ", "f", "o", "u", "n", "d", " ", "(", "4", "0", "4", ")", " ", "a", "t", " ">> \o u
    ELSE IF IsServerError(error_msg)
    THEN <<"S", "e", "r", "v", "e", "r", " ", "e", "r", "r", "o", "r", " ", "a", "t", " ">> \o u
    ELSE error_msg

\* the if/elif chain of the except block: the first matching test wins
Classify(error_msg, u) ==
    IF IsConnectionError(error_msg)
    THEN <<"C", "o", "n", "n", "e", "c", "t", "i", "o", "n", " ", "e", "r", "r", "o", "r", ":", " ", "u", "n", "a", "b", "l", "e", " ", "t", "o", " ", "r", "e", "a", "c", "h", " ">> \o u
    ELSE IF IsTimeout(error_msg)
    THEN <<"R", "e", "q", "u", "e", "s", "t", " ", "t", "i", "m", "e", "d", " ", "o", "u", "t", " ", "f", "o", "r", " ">> \o u
    ELSE IF IsCertificateError(error_msg)
    THEN <<"S", "S", "L", "/", "T", "L", "S", " ", "c", "e", "r", "t", "i", "f", "i", "c", "a", "t", "e", " ", "e", "r", "r", "o", "r", " ", "f", "o", "r", " ">> \o u
    ELSE IF Contains(error_msg, <<"4", "0", "4">>)
    THEN <<"P", "a", "g", "e", " ", "n", "o", "t", " ", "f", "o", "u", "n", "d", " ", "(", "4", "0", "4", ")", " ", "a", "t", " ">> \o u
    ELSE IF Contains(error_msg, <<"4", "0", "3">>)
    THEN <<"A", "c", "c", "e", "s", "s", " ", "f", "o", "r", "b", "i", "d", "d", "e", "n", " ", "(", "4", "0", "3", ")", " ", "a", "t", " ">> \o u
    ELSE IF IsServerError(error_msg)
    THEN <<"S", "e", "r", "v", "e", "r", " ", "e", "r", "r", "o", "r", " ", "a", "t", " ">> \o u
    ELSE error_msg

(* ---------------- link extraction ---------------- *)
\* indices of the "/" characters of s
SlashPositions(s) == {i \in 1..Len(s) : s[i] = "/"}

Max(S) == CHOOSE x \in S : \A y \in S : y <= x

\* the base up to and including the last "/" of its path
Directory(base) == SubSeq(base, 1, Max(SlashPositions(base)))

\* urllib.parse.urljoin(base, href) for an http(s) base that has a path and
\* an href that is absolute http(s) or a plain relative name ("p"): the
\* shapes the model's documents contain
UrlJoin(base, href) ==
    IF IsHttpUrl(href) THEN href ELSE Directory(base) \o href

\* the loop with the seen-set keyed by the raw href
RECURSIVE LinkLoop_SeenByHref(_, _, _, _)
LinkLoop_SeenByHref(anchors, u, seen, links) ==
    IF anchors = <<>> THEN links
    ELSE LET a == Head(anchors)
             href == Strip(a.href)
         IN IF href = <<>> \/ StartsWithAny(href, SkippedPrefixes)
            THEN LinkLoop_SeenByHref(Tail(anchors), u, seen, links)
            ELSE LET absolute_url == UrlJoin(u, href) IN
                 IF href \in seen
                 THEN LinkLoop_SeenByHref(Tail(anchors), u, seen, links)
                 ELSE LinkLoop_SeenByHref(Tail(anchors), u, seen \cup {href},
                        Append(links, [url |-> absolute_url,
                                       text |-> Strip(a.text)]))

\* for a in tree.xpath('//a[@href]'): ... links.append(...)
\* anchors: the remaining <a href> elements in document order
RECURSIVE LinkLoop(_, _, _, _)
LinkLoop(anchors, u, seen, links) ==
    IF anchors = <<>> THEN links
    ELSE LET a == Head(anchors)
             href == Strip(a.href)
         IN IF href = <<>> \/ StartsWithAny(href, SkippedPrefixes)
            THEN LinkLoop(Tail(anchors), u, seen, links)
            ELSE LET absolute_url == UrlJoin(u, href) IN
                 IF absolute_url \in seen
                 THEN LinkLoop(Tail(anchors), u, seen, links)
                 ELSE LinkLoop(Tail(anchors), u, seen \cup {absolute_url},
                        Append(links, [url |-> absolute_url,
                                       text |-> Strip(a.text)]))

\* seen = set(); links = []; the loop
ExtractLinks(anchors, u) == LinkLoop(anchors, u, {}, <<>>)

(* ---------------- metadata ---------------- *)
MetaKeys == {"sitename", "title", "author", "date", "description"}

EmptyMetadata == [k \in {} |-> ""]

\* Python truthiness of an attribute that is None or a str
Truthy(field) == field # None /\ field[1] # ""

\* metadata = {}; if meta: if meta.sitename: metadata["sitename"] = ...
BuildMetadata(meta) ==
    IF meta = None THEN EmptyMetadata
    ELSE [k \in {key \in MetaKeys : Truthy(meta[1][key])} |-> meta[1][k][1]]

(* ---------------- the dicts handed to json.dumps ---------------- *)
\* the error dict that carries the message in "content" as well
ErrorEnvelope_ContentKept(msg, u) ==
    [error |-> Some(msg), url |-> u, metadata |-> EmptyMetadata,
     content |-> msg]

ErrorEnvelope(msg, u) ==
    [error |-> Some(msg), url |-> u, metadata |-> EmptyMetadata,
     content |-> <<>>]

\* the links dict built like the other dicts, with an empty "content"
LinksEnvelope_WithContent(u, links) ==
    [url |-> u, links |-> links, link_count |-> Len(links), error |-> None,
     content |-> <<>>]

LinksEnvelope(u, links) ==
    [url |-> u, links |-> links, link_count |-> Len(links), error |-> None]

ContentEnvelope(u, md, c) ==
    [url |-> u, metadata |-> md, content |-> c, error |-> None]

(* ---------------- inputs ---------------- *)
UrlCores ==
    { <<>>, <<"n", "o", "t", "-", "a", "-", "u", "r", "l">>, <<"h", "t", "t", "p", ":", "/", "/", "a", "/">>, <<"h", "t", "t", "p", "s", ":", "/", "/", "a", "/", "d", "/", "x">>,
      <<"H", "T", "T", "P", ":", "/", "/", "a", "/">>, <<"f", "t", "p", ":", "/", "/", "a", "/">> }

\* url arguments: a core, bare or with whitespace before and/or after it
Urls ==
    {left \o c \o right :
        c \in UrlCores, left \in {<<>>, <<" ">>}, right \in {<<>>, <<"\n">>}}

\* str(e) of the exceptions the collaborators raise
Messages ==
    { <<>>, <<"b", "o", "o", "m">>, <<"4", "0", "4">>, <<"4", "0", "3", " ", "a", "n", "d", " ", "4", "0", "4">>, <<"s", "s", "l", " ", "4", "0", "4">>,
      <<"C", "o", "n", "n", "e", "c", "t", "i", "o", "n", " ", "r", "e", "f", "u", "s", "e", "d", " ", "4", "0", "4">>, <<"S", "S", "L", " ", "5", "0", "2">> }

\* <a href> elements of a page (href attribute, text_content())
AnchorPool ==
    { [href |-> <<" ", "b", "\n">>, text |-> <<" ", "B", " ">>],
      [href |-> <<"h", "t", "t", "p", "s", ":", "/", "/", "a", "/", "d", "/", "b">>, text |-> <<>>],
      [href |-> <<"#", "t", "o", "p">>, text |-> <<"T">>],
      [href |-> <<"j", "a", "v", "a", "s", "c", "r", "i", "p", "t", ":", "x">>, text |-> <<"J">>],
      [href |-> <<"m", "a", "i", "l", "t", "o", ":", "x">>, text |-> <<"M">>],
      [href |-> <<"t", "e", "l", ":", "1">>, text |-> <<"P">>],
      [href |-> <<"d", "a", "t", "a", ":", "x">>, text |-> <<"D">>],
      [href |-> <<" ">>, text |-> <<"E">>] }

RECURSIVE SeqsUpTo(_, _)
SeqsUpTo(S, n) ==
    IF n = 0 THEN {<<>>}
    ELSE LET shorter == SeqsUpTo(S, n - 1)
         IN shorter \cup {Append(s, x) : s \in shorter, x \in S}

\* the anchors of AnchorPool that yield a link, and one that is skipped
ContentModeAnchors ==
    {a \in AnchorPool : a.text \in {<<" ", "B", " ">>, <<>>, <<"T">>}}

\* fetched documents, as the sequence of their <a href> elements; content
\* mode never reads the anchors, so its documents draw on fewer of them
Documents(links_only) ==
    SeqsUpTo(IF links_only THEN AnchorPool ELSE ContentModeAnchors,
             MaxAnchors)

\* results of trafilatura.extract other than None
Texts ==
    { <<>>, <<" ", "\n", " ">>, <<"H", "e", "l", "l", "o", " ", "w", "o", "r", "l", "d">> }
    \cup { <<"a">> \o Rep("\n", n) \o <<"b">> : n \in 0..MaxNewlines }

\* results of trafilatura.extract_metadata other than None
Metas ==
    { [k \in MetaKeys |-> None],
      [k \in MetaKeys |-> Some("v")],
      [k \in MetaKeys |-> IF k = "title" THEN Some("t")
                          ELSE IF k = "date" THEN Some("") ELSE None] }

(* ---------------- state ---------------- *)
VARIABLES
    pc,                \* position inside fetch_url
    request_url,       \* the url argument as passed by the caller
    url,               \* the local url (reassigned by url.strip())
    include_links, include_images, include_metadata, extract_links,
    downloaded,        \* None or Some(document)
    content,           \* None or Some(text)
    metadata,          \* the metadata dict
    e,                 \* None or Some(str(e)) of the exception raised
    calls,             \* collaborator calls made so far, in order
    result             \* None or Some(returned dict)

vars == <<pc, request_url, url, include_links, include_images,
          include_metadata, extract_links, downloaded, content, metadata,
          e, calls, result>>

args == <<request_url, include_links, include_images, include_metadata,
          extract_links>>

Init ==
    /\ pc = "validate"
    /\ request_url \in Urls
    /\ url = request_url
    /\ include_links \in BOOLEAN
    /\ include_images \in BOOLEAN
    /\ include_metadata \in BOOLEAN
    /\ extract_links \in BOOLEAN
    /\ downloaded = None
    /\ content = None
    /\ metadata = EmptyMetadata
    /\ e = None
    /\ calls = <<>>
    /\ result = None

\* return json.dumps(d)
Return(d) == result' = Some(d) /\ pc' = "done"

\* a raise inside a try block that skips the call to lxml
HandlerFor_ParseOutsideTry(call) ==
    IF call = "fromstring" THEN "raised" ELSE "except"

\* where control goes when a collaborator call raises: every call is
\* inside the try block, and `except Exception` catches it
HandlerFor(call) == "except"

\* a collaborator call raises an exception
Raises(call) ==
    \E msg \in Messages :
        /\ e' = Some(msg)
        /\ pc' = HandlerFor(call)
        /\ calls' = Append(calls, call)

(* ---------------- the steps of fetch_url ---------------- *)
\* URL validation
Validate ==
    /\ pc = "validate"
    /\ IF url = <<>>
       THEN Return(ErrorEnvelope(MsgUrlRequired, url)) /\ url' = url
       ELSE /\ url' = Strip(url)
            /\ IF ~IsHttpUrl(url')
               THEN Return(ErrorEnvelope(MsgInvalidUrl, url'))
               ELSE pc' = "fetch" /\ result' = result
    /\ UNCHANGED <<args, downloaded, content, metadata, e, calls>>

\* the None test left out: extraction is attempted on None, finds nothing,
\* and the call reports the extraction error
FetchNone_Unchecked ==
    /\ pc = "fetch"
    /\ calls' = <<"fetch_url", "extract">>
    /\ Return(ErrorEnvelope(MsgNoContent, url))
    /\ UNCHANGED <<args, url, downloaded, content, metadata, e>>

\* trafilatura.fetch_url returns None
FetchNone ==
    /\ pc = "fetch"
    /\ calls' = Append(calls, "fetch_url")
    /\ Return(ErrorEnvelope(MsgFetchFailed, url))
    /\ UNCHANGED <<args, url, downloaded, content, metadata, e>>

\* content mode taken whatever the flag
AfterFetch_AlwaysContent(links_only) == "extract"

\* if extract_links: ... else content extraction
AfterFetch(links_only) == IF links_only THEN "links" ELSE "extract"

\* trafilatura.fetch_url returns a document
FetchDocument ==
    /\ pc = "fetch"
    /\ \E doc \in Documents(extract_links) : downloaded' = Some(doc)
    /\ calls' = Append(calls, "fetch_url")
    /\ pc' = AfterFetch(extract_links)
    /\ UNCHANGED <<args, url, content, metadata, e, result>>

\* trafilatura.fetch_url raises
FetchRaises ==
    /\ pc = "fetch"
    /\ Raises("fetch_url")
    /\ UNCHANGED <<args, url, downloaded, content, metadata, result>>

\* links-only mode: lxml parses the document, the loop collects the links
LinksOnly ==
    /\ pc = "links"
    /\ \/ /\ calls' = Append(calls, "fromstring")
          /\ Return(LinksEnvelope(url, ExtractLinks(downloaded[1], url)))
          /\ e' = e
       \/ Raises("fromstring") /\ result' = result
    /\ UNCHANGED <<args, url, downloaded, content, metadata>>

\* trafilatura.extract, the empty test and the newline clean-up
ExtractContent ==
    /\ pc = "extract"
    /\ \/ \E out \in {None} \cup {Some(t) : t \in Texts} :
            /\ calls' = Append(calls, "extract")
            /\ e' = e
            /\ IF out = None \/ Strip(out[1]) = <<>>
               THEN /\ content' = out
                    /\ metadata' = metadata
                    /\ Return(ErrorEnvelope(MsgNoContent, url))
               ELSE /\ content' = Some(ReSubNewlines(out[1]))
                    /\ metadata' = EmptyMetadata
                    /\ IF include_metadata
                       THEN pc' = "metadata" /\ result' = result
                       ELSE Return(ContentEnvelope(url, metadata',
                                                   content'[1]))
       \/ Raises("extract") /\ UNCHANGED <<content, metadata, result>>
    /\ UNCHANGED <<args, url, downloaded>>

\* trafilatura.extract_metadata and the final return
ExtractMetadata ==
    /\ pc = "metadata"
    /\ \/ \E meta \in {None} \cup {Some(m) : m \in Metas} :
            /\ calls' = Append(calls, "extract_metadata")
            /\ e' = e
            /\ metadata' = BuildMetadata(meta)
            /\ Return(ContentEnvelope(url, metadata', content[1]))
       \/ Raises("extract_metadata") /\ UNCHANGED <<metadata, result>>
    /\ UNCHANGED <<args, url, downloaded, content>>

\* except Exception as e: classify the message, return the error dict
Except ==
    /\ pc = "except"
    /\ Return(ErrorEnvelope(Classify(e[1], url), url))
    /\ UNCHANGED <<args, url, downloaded, content, metadata, e, calls>>

Next ==
    \/ Validate
    \/ FetchNone
    \/ FetchDocument
    \/ FetchRaises
    \/ LinksOnly
    \/ ExtractContent
    \/ ExtractMetadata
    \/ Except

Spec == Init /\ [][Next]_vars

Returned == pc = "done"
Envelope == result[1]
Keys == DOMAIN Envelope

(* ======================= properties ======================= *)
HasKey(k) == k \in Keys
ErrorIsNull == Envelope.error = None
ValidationErrors == {Some(MsgUrlRequired), Some(MsgInvalidUrl)}
TrimmedRequest == Strip(request_url)
HasHttpScheme(s) == \E p \in HttpPrefixes : StartsWith(s, p)
Called(call) == \E i \in 1..Len(calls) : calls[i] = call
ExtractedText == content # None /\ Strip(content[1]) # <<>>

\* C1: fetch_url never lets an exception escape to its caller, and every
\* dict it returns carries both a "url" key and an "error" key.
C1_NoExceptionEscapes ==
    /\ pc # "raised"
    /\ Returned => HasKey("url") /\ HasKey("error")

\* C1 case: lxml raised while parsing the document and fetch_url still
\* returned an envelope.
C1_Witness ==
    /\ Returned
    /\ e # None
    /\ Called("fromstring")
    /\ HasKey("url") /\ HasKey("error")

\* C2: an envelope with a non-null error has content "", metadata {} and no
\* links; an envelope with a null error has exactly one of content and
\* links: links in links-only mode, content in content mode.
C2_EnvelopeShape ==
    Returned =>
        IF ~ErrorIsNull
        THEN /\ HasKey("content") /\ Envelope.content = <<>>
             /\ HasKey("metadata") /\ DOMAIN Envelope.metadata = {}
             /\ ~HasKey("links")
        ELSE /\ HasKey("content") # HasKey("links")
             /\ HasKey("links") <=> extract_links

\* C2 case: the metadata collaborator raised after content had been
\* extracted, and the error envelope carries none of it.
C2_Witness ==
    /\ Returned
    /\ ~ErrorIsNull
    /\ Called("extract_metadata")
    /\ ExtractedText
    /\ Envelope.content = <<>>

C4_UrlValidation ==
    Returned =>
        IF TrimmedRequest = <<>> \/ ~HasHttpScheme(TrimmedRequest)
        THEN /\ Envelope.error \in ValidationErrors
             /\ HasKey("content") /\ Envelope.content = <<>>
             /\ HasKey("metadata") /\ DOMAIN Envelope.metadata = {}
             /\ calls = <<>>
        ELSE Envelope.error \notin ValidationErrors

\* C4 case: a url argument made of whitespace only was rejected.
C4_Witness ==
    /\ Returned
    /\ request_url # <<>>
    /\ TrimmedRequest = <<>>
    /\ Envelope.error = Some(MsgInvalidUrl)

\* C5: when the fetch collaborator returns no document, in either mode, the
\* error is exactly "Failed to fetch URL: page not accessible or returned
\* empty content".
C5_FetchNoneMessage ==
    (Returned /\ Called("fetch_url") /\ downloaded = None /\ e = None) =>
        Envelope.error = Some(MsgFetchFailed)

\* C5 case: the fetch collaborator returned None in links-only mode.
C5_Witness ==
    /\ Returned /\ extract_links
    /\ calls = <<"fetch_url">> /\ downloaded = None /\ e = None
    /\ Envelope.error = Some(MsgFetchFailed)

MsgNotFound(u) == <<"P", "a", "g", "e", " ", "n", "o", "t", " ", "f", "o", "u", "n", "d", " ", "(", "4", "0", "4", ")", " ", "a", "t", " ">> \o u

\* C6 as stated: whenever a collaborator raises an exception whose message
\* contains "404", whatever else it contains, the error is
\* "Page not found (404) at <url>".
C6_Any404IsNotFound ==
    (Returned /\ e # None /\ Contains(e[1], <<"4", "0", "4">>)) =>
        Envelope.error = Some(MsgNotFound(url))

\* C6 amended: when the message contains "404" and passes none of the
\* connection, timeout and SSL/certificate tests made before the 404 test,
\* the error is "Page not found (404) at <url>", url being the trimmed
\* request url.
C6_404AfterEarlierTests ==
    (/\ Returned /\ e # None /\ Contains(e[1], <<"4", "0", "4">>)
     /\ ~IsConnectionError(e[1]) /\ ~IsTimeout(e[1])
     /\ ~IsCertificateError(e[1])) =>
        /\ Envelope.error = Some(MsgNotFound(url))
        /\ url = TrimmedRequest

\* C6 case: a message holding both "403" and "404" was reported as not
\* found.
C6_Witness ==
    /\ Returned
    /\ e = Some(<<"4", "0", "3", " ", "a", "n", "d", " ", "4", "0", "4">>)
    /\ Envelope.error = Some(MsgNotFound(url))

\* "- [text](url)", the url standing in for an empty text
BulletLine(link) ==
    <<"-", " ", "[">> \o (IF link.text = <<>> THEN link.url ELSE link.text)
            \o <<"]", "(">> \o link.url \o <<")">>

\* C7: in content mode a successful call on a page that has links returns
\* content holding a "## Page Links" section with one bullet line
\* "- [text](url)" per link of the link extractor's list.
C7_PageLinksAppended ==
    (/\ Returned /\ ~extract_links /\ ErrorIsNull
     /\ ExtractLinks(downloaded[1], url) # <<>>) =>
        LET links == ExtractLinks(downloaded[1], url) IN
        /\ Contains(Envelope.content, <<"#", "#", " ", "P", "a", "g", "e", " ", "L", "i", "n", "k", "s">>)
        /\ \A i \in 1..Len(links) :
              Contains(Envelope.content, BulletLine(links[i]))

\* C8: when the content collaborator returned text that is not blank and
\* nothing raised, the content-mode envelope has a null error and a
\* non-empty content without 3 consecutive newlines.
C8_NoLongNewlineRuns ==
    (Returned /\ ~extract_links /\ ExtractedText /\ e = None) =>
        /\ ErrorIsNull
        /\ HasKey("content") /\ Envelope.content # <<>>
        /\ ~Contains(Envelope.content, <<"\n", "\n", "\n">>)

\* C8 case: a text with a run of newlines came back with a run of two.
C8_Witness ==
    /\ Returned /\ ~extract_links /\ ErrorIsNull
    /\ Envelope.content = <<"a", "\n", "\n", "b">>

Skipped(a) ==
    Strip(a.href) = <<>> \/ StartsWithAny(Strip(a.href), SkippedPrefixes)
NotSkipped(a) == ~Skipped(a)

\* the reference link list: drop the skipped anchors, resolve the others
\* against the request url, keep the first anchor of each resolved url
ReferenceLinks(anchors, u) ==
    LET kept == SelectSeq(anchors, NotSkipped)
        resolved == [i \in 1..Len(kept) |->
                        [url |-> UrlJoin(u, Strip(kept[i].href)),
                         text |-> Strip(kept[i].text)]]
        IsFirst(i) == \A j \in 1..(i - 1) : resolved[j].url # resolved[i].url
        firsts == {i \in 1..Len(kept) : IsFirst(i)}
        Nth(n) == CHOOSE i \in firsts :
                      Cardinality({j \in firsts : j < i}) = n - 1
    IN [n \in 1..Cardinality(firsts) |-> resolved[Nth(n)]]

\* C9: the links returned in links-only mode are the reference list; no
\* resolved url occurs twice and no skipped href appears.
C9_LinksMatchReference ==
    (Returned /\ extract_links /\ ErrorIsNull) =>
        LET links == Envelope.links IN
        /\ links = ReferenceLinks(downloaded[1], url)
        /\ \A i, j \in 1..Len(links) :
              links[i].url = links[j].url => i = j
        /\ \A i \in 1..Len(links) :
              ~StartsWithAny(links[i].url, SkippedPrefixes)

\* C9 case: two anchors with different hrefs that resolve to one url gave
\* one link, with the first anchor's text.
C9_Witness ==
    /\ Returned /\ extract_links /\ ErrorIsNull
    /\ Len(downloaded[1]) = 2
    /\ NotSkipped(downloaded[1][1]) /\ NotSkipped(downloaded[1][2])
    /\ Strip(downloaded[1][1].href) # Strip(downloaded[1][2].href)
    /\ Len(Envelope.links) = 1
    /\ Envelope.links[1].text = Strip(downloaded[1][1].text)

IsPrefix(s, t) == Len(s) <= Len(t) /\ SubSeq(t, 1, Len(s)) = s

\* C10: the collaborators are called in the order fetch, then either the
\* parser (links-only) or extract and then extract_metadata, each at most
\* once; none is called before validation passed; extract and
\* extract_metadata are called only on a fetched document and never in
\* links-only mode; extract_metadata only when include_metadata is set and
\* extract returned text that is not blank.
C10_CallOrder ==
    /\ \/ IsPrefix(calls, <<"fetch_url", "extract", "extract_metadata">>)
       \/ IsPrefix(calls, <<"fetch_url", "fromstring">>)
    /\ calls # <<>> =>
          /\ pc # "validate"
          /\ HasHttpScheme(TrimmedRequest)
    /\ Len(calls) >= 2 => downloaded # None
    /\ extract_links => ~Called("extract") /\ ~Called("extract_metadata")
    /\ Called("fromstring") => extract_links
    /\ Called("extract_metadata") => include_metadata /\ ExtractedText
    /\ Returned => result # None

\* C10 case: a content-mode call that went through all three collaborators
\* and returned.
C10_Witness ==
    /\ Returned
    /\ calls = <<"fetch_url", "extract", "extract_metadata">>
    /\ ErrorIsNull
====
